---- MODULE Spec2Model ----
(***************************************************************************)
(* Model of SPIRV/spvIR.h: the SPIR-V in-memory IR (Module, Function,      *)
(* Block, Instruction) and its binary emission.                            *)
(*                                                                         *)
(* C++ vectors are 0-based, TLA+ sequences are 1-based: element i of a     *)
(* vector is element i + 1 of the sequence that models it.                 *)
(***************************************************************************)
EXTENDS Integers, Sequences, FiniteSets, TLC

VARIABLES
    inst,             \* the Instruction object a caller is filling in
    out,              \* the std::vector<unsigned int>& handed to dump
    idToInstruction,  \* Module::idToInstruction
    functions,        \* the Function objects, in Module::functions order
    blocks,           \* the Block objects, in the order they were constructed
    ctor,             \* per block, the label instruction its constructor made
    mapped,           \* the instructions handed to Module::mapInstruction so far
    last              \* the call that produced the current state

vars == <<inst, out, idToInstruction, functions, blocks, ctor, mapped, last>>

----------------------------------------------------------------------------
(* Bounds of the model. *)

MaxOperands == 2
MaxStrLen == 5
MaxDumpStrLen == 4

----------------------------------------------------------------------------
(* Constants of the program.  The opcodes, WordCountShift and               *)
(* FunctionControlMaskNone are declared in spirv.hpp; the model uses the   *)
(* values of the SPIR-V binary format.  Only their being distinct and      *)
(* below 2^16 matters here.                                                *)

NoResult == 0
NoType == 0
WordBits == 32
WordCountShift == 16
OpNop == 0
OpName == 5
OpTypeVoid == 19
OpTypeFunction == 33
OpFunction == 54
OpFunctionParameter == 55
OpVariable == 59
OpLoad == 61
OpLoopMerge == 246
OpSelectionMerge == 247
OpLabel == 248
OpBranch == 249
OpBranchConditional == 250
OpSwitch == 251
OpKill == 252
OpReturn == 253
OpReturnValue == 254
FunctionControlMaskNone == 0

RECURSIVE Pow2(_)
Pow2(n) == IF n = 0 THEN 1 ELSE 2 * Pow2(n - 1)

\* n << s on an unsigned int: the bits shifted past the top are lost
\* ((n * 2^s) % 2^WordBits, written so that no intermediate value exceeds
\* the word).
ShiftLeft(n, s) == (n % Pow2(WordBits - s)) * Pow2(s)

RECURSIVE BitOr(_, _)
BitOr(a, b) ==
    IF a = 0 THEN b
    ELSE IF b = 0 THEN a
    ELSE (IF (a % 2 = 1) \/ (b % 2 = 1) THEN 1 ELSE 0)
         + 2 * BitOr(a \div 2, b \div 2)

RECURSIVE Concat(_)
Concat(ss) == IF ss = <<>> THEN <<>> ELSE Head(ss) \o Concat(Tail(ss))

----------------------------------------------------------------------------
(* Instruction *)

\* "string" is the member std::vector<unsigned int>* string: hasString is
\* FALSE while the pointer is null.
NewInstruction(resultId, typeId, opCode) ==
    [resultId |-> resultId, typeId |-> typeId, opCode |-> opCode,
     operands |-> <<>>, hasString |-> FALSE, string |-> <<>>,
     originalString |-> <<>>]

\* A null Instruction*.  (No instruction of the model has opcode OpNop, no
\* result and no type, so no object is mistaken for it.)
NoInst == NewInstruction(NoResult, NoType, OpNop)

\* The value of an unsigned int whose four bytes, in memory order, are w
\* (little-endian host).
PackWord(w) == w[1] + 256 * w[2] + 65536 * w[3] + 16777216 * w[4]

\* The bytes of word v in memory order.
WordBytes(v) ==
    <<v % 256, (v \div 256) % 256, (v \div 65536) % 256, (v \div 16777216) % 256>>

\* The do-while loop of addStringOperand, from reading str[i] on.  str is the
\* C string including its terminating NUL; word is the 4-byte buffer
\* "unsigned int word", charCount the bytes written into it so far.
RECURSIVE StringLoop(_, _, _, _, _)
StringLoop(str, i, word, charCount, acc) ==
    LET c == str[i]
        w1 == [word EXCEPT ![charCount + 1] = c]
        full == charCount + 1 = 4
        acc1 == IF full THEN Append(acc, PackWord(w1)) ELSE acc
        cc1 == IF full THEN 0 ELSE charCount + 1
    IN  IF c # 0
        THEN StringLoop(str, i + 1, w1, cc1, acc1)
        ELSE [words |-> acc1, word |-> w1, charCount |-> cc1]

\* A plausible slip: the partial last word is pushed without zeroing the
\* bytes left over from the previous word.
StringTailStale(r) ==
    IF r.charCount > 0 THEN Append(r.words, PackWord(r.word)) ELSE r.words

\* "deal with partial last word"
StringTail(r) ==
    IF r.charCount > 0
    THEN Append(r.words,
                PackWord([k \in 1..4 |-> IF k <= r.charCount THEN r.word[k] ELSE 0]))
    ELSE r.words

\* A plausible slip: the terminating NUL is dropped when the text fills
\* whole words.
StringWordsNoTerminatorWord(text, garbage) ==
    LET r == StringLoop(text \o <<0>>, 1, garbage, 0, <<>>)
    IN  IF Len(text) % 4 = 0 /\ Len(text) > 0 THEN r.words \o <<>>
        ELSE StringTail(r)

\* The words addStringOperand stores for the NUL-terminated text; garbage is
\* the indeterminate initial content of the local "word".
StringWords(text, garbage) ==
    StringTail(StringLoop(text \o <<0>>, 1, garbage, 0, <<>>))

\* A plausible slip: the result id is written but not counted.
InstructionDumpMiscount(i) ==
    LET wordCount == 1 + (IF i.typeId # 0 THEN 1 ELSE 0)
                       + Len(i.operands)
                       + (IF i.hasString THEN Len(i.string) ELSE 0)
    IN  <<BitOr(ShiftLeft(wordCount, WordCountShift), i.opCode)>>
        \o (IF i.typeId # 0 THEN <<i.typeId>> ELSE <<>>)
        \o (IF i.resultId # 0 THEN <<i.resultId>> ELSE <<>>)
        \o i.operands
        \o (IF i.hasString THEN i.string ELSE <<>>)

\* The words Instruction::dump pushes onto out.
InstructionDump(i) ==
    LET wordCount == 1 + (IF i.typeId # 0 THEN 1 ELSE 0)
                       + (IF i.resultId # 0 THEN 1 ELSE 0)
                       + Len(i.operands)
                       + (IF i.hasString THEN Len(i.string) ELSE 0)
    IN  <<BitOr(ShiftLeft(wordCount, WordCountShift), i.opCode)>>
        \o (IF i.typeId # 0 THEN <<i.typeId>> ELSE <<>>)
        \o (IF i.resultId # 0 THEN <<i.resultId>> ELSE <<>>)
        \o i.operands
        \o (IF i.hasString THEN i.string ELSE <<>>)

----------------------------------------------------------------------------
(* Module: the id -> instruction index *)

\* std::vector::resize(n): new slots hold null pointers (NoInst), slots past
\* n are dropped.
Resize(v, n) == [k \in 1..n |-> IF k <= Len(v) THEN v[k] ELSE NoInst]

\* A plausible slip: the grown index is a fresh vector, the old mappings are
\* not carried over.
MapInstructionForgets(idx, i) ==
    LET resultId == i.resultId
        grown == IF resultId >= Len(idx)
                 THEN [k \in 1..(resultId + 16) |-> NoInst]
                 ELSE idx
    IN  [grown EXCEPT ![resultId + 1] = i]

\* Module::mapInstruction: the index after registering i.  Ids in the model
\* stay far below 2^32 - 16, so resultId + 16 does not wrap.
MapInstruction(idx, i) ==
    LET resultId == i.resultId
        grown == IF resultId >= Len(idx) THEN Resize(idx, resultId + 16) ELSE idx
    IN  [grown EXCEPT ![resultId + 1] = i]

RECURSIVE MapAll(_, _)
MapAll(idx, is) ==
    IF is = <<>> THEN idx ELSE MapAll(MapInstruction(idx, Head(is)), Tail(is))

\* Module::getInstruction(id) is idToInstruction[id]; reading past the end of
\* the vector is undefined, so an id resolves to i only when its slot exists
\* and holds i.
InIndex(idx, id) == id < Len(idx)
GetInstruction(idx, id) == idx[id + 1]
Resolves(i) ==
    /\ InIndex(idToInstruction, i.resultId)
    /\ GetInstruction(idToInstruction, i.resultId) = i

----------------------------------------------------------------------------
(* Function *)

\* A plausible slip: the return-type operand is not skipped.
FunctionParametersOffByOne(typeInst, firstParamId) ==
    LET numParams == Len(typeInst.operands) - 1
    IN  [p1 \in 1..numParams |->
            NewInstruction(firstParamId + (p1 - 1),
                           typeInst.operands[p1], OpFunctionParameter)]

\* The OpFunctionParameter instructions the Function constructor makes from
\* the function type instruction; p1 is p + 1, and getIdOperand(p + 1) is
\* element p + 2 of the operand sequence.
FunctionParameters(typeInst, firstParamId) ==
    LET numParams == Len(typeInst.operands) - 1
    IN  [p1 \in 1..numParams |->
            NewInstruction(firstParamId + (p1 - 1),
                           typeInst.operands[p1 + 1], OpFunctionParameter)]

FunctionInstruction(id, resultType, functionType) ==
    [NewInstruction(id, resultType, OpFunction)
        EXCEPT !.operands = <<FunctionControlMaskNone, functionType>>]

FunctionGetId(f) == f.functionInstruction.resultId

----------------------------------------------------------------------------
(* Block *)

NewBlockRecord(label, parent) ==
    [instructions |-> <<label>>, localVariables |-> <<>>,
     parent |-> parent, unreachable |-> FALSE]

BlockGetId(b) == b.instructions[1].resultId

Back(is) == is[Len(is)]

TerminatorOps ==
    {OpBranch, OpBranchConditional, OpSwitch, OpKill, OpReturn, OpReturnValue}

IsTerminated(b) == Back(b.instructions).opCode \in TerminatorOps

\* vector::insert(begin() + pos, x), pos counted from 0
InsertAt(is, pos, x) ==
    SubSeq(is, 1, pos) \o <<x>> \o SubSeq(is, pos + 1, Len(is))

\* A plausible slip: the loop-merge test is missing, every OpBranch gets the
\* instruction directly in front of it.
InsertedBeforeTerminalNoMergeTest(is, x) ==
    LET n == Len(is)
        op == Back(is).opCode
    IN  IF op \in {OpBranchConditional, OpSwitch} THEN InsertAt(is, n - 2, x)
        ELSE IF op = OpBranch THEN InsertAt(is, n - 1, x)
        ELSE IF op \in {OpKill, OpReturn, OpReturnValue} THEN InsertAt(is, n - 1, x)
        ELSE Append(is, x)

\* A plausible slip: OpKill is missing from the switch and falls to default.
InsertedBeforeTerminalKillAppends(is, x) ==
    LET n == Len(is)
        op == Back(is).opCode
    IN  IF op \in {OpBranchConditional, OpSwitch} THEN InsertAt(is, n - 2, x)
        ELSE IF op = OpBranch
        THEN IF n > 1 /\ is[n - 1].opCode = OpLoopMerge
             THEN InsertAt(is, n - 2, x)
             ELSE InsertAt(is, n - 1, x)
        ELSE IF op \in {OpReturn, OpReturnValue} THEN InsertAt(is, n - 1, x)
        ELSE Append(is, x)

\* Block::insertInstructionBeforeTerminal: the instruction sequence after
\* inserting x.  end() - 2 is position n - 2, end() - 1 and --end() are
\* position n - 1; instructions[size - 2] is element n - 1 here.
InsertedBeforeTerminal(is, x) ==
    LET n == Len(is)
        op == Back(is).opCode
    IN  IF op \in {OpBranchConditional, OpSwitch} THEN InsertAt(is, n - 2, x)
        ELSE IF op = OpBranch
        THEN IF n > 1 /\ is[n - 1].opCode = OpLoopMerge
             THEN InsertAt(is, n - 2, x)
             ELSE InsertAt(is, n - 1, x)
        ELSE IF op \in {OpKill, OpReturn, OpReturnValue} THEN InsertAt(is, n - 1, x)
        ELSE Append(is, x)

DumpAll(is) == Concat([k \in 1..Len(is) |-> InstructionDump(is[k])])

\* The words Block::dump pushes onto out.
BlockDump(b) ==
    IF b.unreachable /\ Len(b.instructions) <= 2 THEN <<>>
    ELSE InstructionDump(b.instructions[1])
         \o DumpAll(b.localVariables)
         \o DumpAll(Tail(b.instructions))

----------------------------------------------------------------------------
(* Inputs *)

Chars == {97, 98, 99, 100}
Garbage == {<<0, 0, 0, 0>>, <<127, 127, 127, 127>>}
OperandVals == {1, 70000}
OutPrefixes == {<<>>, <<119734787>>}

RECURSIVE SeqsUpTo(_, _)
SeqsUpTo(S, n) ==
    IF n = 0 THEN {<<>>}
    ELSE LET shorter == SeqsUpTo(S, n - 1)
         IN  shorter \cup {Append(s, x) : s \in {t \in shorter : Len(t) = n - 1}, x \in S}

Texts == SeqsUpTo(Chars, MaxStrLen)

\* "abcd", "abcda", ... cut to n bytes
TextOfLen(n) == [k \in 1..n |-> 97 + ((k - 1) % 4)]
DumpTexts == {TextOfLen(n) : n \in 0..MaxDumpStrLen}

\* A record of one call: its name, its integer arguments (block and function
\* numbers, ids), its Instruction argument, and the content before the call of
\* the container it changes (out for dump, the instruction sequence for the
\* Block insertions, the function list for the Function constructor).
Call(op, args, i, pre) == [op |-> op, args |-> args, inst |-> i, pre |-> pre]

----------------------------------------------------------------------------
(* Instruction operations *)

EmptyModule ==
    /\ idToInstruction = <<>>
    /\ functions = <<>>
    /\ blocks = <<>>
    /\ ctor = <<>>
    /\ mapped = {}

ModuleUnchanged == UNCHANGED <<idToInstruction, functions, blocks, ctor, mapped>>

AddIdOperand(id) ==
    /\ Len(inst.operands) < MaxOperands
    /\ inst' = [inst EXCEPT !.operands = Append(@, id)]
    /\ last' = Call("addIdOperand", <<>>, NoInst, <<>>)
    /\ UNCHANGED out
    /\ ModuleUnchanged

AddImmediateOperand(immediate) ==
    /\ Len(inst.operands) < MaxOperands
    /\ inst' = [inst EXCEPT !.operands = Append(@, immediate)]
    /\ last' = Call("addImmediateOperand", <<>>, NoInst, <<>>)
    /\ UNCHANGED out
    /\ ModuleUnchanged

\* A second call would leak the first vector and replace it; the model stops
\* at one string operand per instruction.
AddStringOperand(text, garbage) ==
    /\ ~inst.hasString
    /\ inst' = [inst EXCEPT !.originalString = text,
                            !.hasString = TRUE,
                            !.string = StringWords(text, garbage)]
    /\ last' = Call("addStringOperand", <<>>, NoInst, <<>>)
    /\ UNCHANGED out
    /\ ModuleUnchanged

\* Instruction::dump(out), out holding prefix when it is called.
DumpInstruction(prefix) ==
    /\ out' = prefix \o InstructionDump(inst)
    /\ last' = Call("Instruction::dump", <<>>, NoInst, prefix)
    /\ UNCHANGED inst
    /\ ModuleUnchanged

\* One Instruction, constructed with either constructor, not yet dumped.
InitInstr ==
    /\ \E r \in {NoResult, 7}, t \in {NoType, 3}, op \in {OpName, OpVariable, OpLoad} :
          inst = NewInstruction(r, t, op)
    /\ out = <<>>
    /\ last = Call("Instruction", <<>>, NoInst, <<>>)
    /\ EmptyModule

NextInstr ==
    \/ \E id \in OperandVals : AddIdOperand(id)
    \/ \E v \in OperandVals : AddImmediateOperand(v)
    \/ \E text \in DumpTexts, g \in Garbage : AddStringOperand(text, g)
    \/ \E prefix \in OutPrefixes : DumpInstruction(prefix)

SpecInstr == InitInstr /\ [][NextInstr]_vars

\* One Instruction with no string operand yet.
InitStr ==
    /\ inst = NewInstruction(NoResult, NoType, OpName)
    /\ out = <<>>
    /\ last = Call("Instruction", <<>>, NoInst, <<>>)
    /\ EmptyModule

NextStr == \E text \in Texts, g \in Garbage : AddStringOperand(text, g)

SpecStr == InitStr /\ [][NextStr]_vars

----------------------------------------------------------------------------
(* Module, Function and Block operations *)

MaxMapped == 3
MaxId == 50
MaxParams == 2
MaxFuncId == 6
MaxFunctions == 1
MaxBlockLen == 3
MaxLocals == 2

\* MaxBlockLen caps the sequences addInstruction builds; the two insertions
\* may still add one instruction to a sequence of that length.
InstUnchanged == UNCHANGED <<inst, out>>

\* Every Instruction object the module holds or has been handed.
OwnedInstructions ==
    UNION {{functions[f].functionInstruction}
             \cup {functions[f].parameterInstructions[k] :
                     k \in 1..Len(functions[f].parameterInstructions)} :
           f \in 1..Len(functions)}
    \cup UNION {{blocks[b].instructions[k] : k \in 1..Len(blocks[b].instructions)}
                  \cup {blocks[b].localVariables[k] :
                          k \in 1..Len(blocks[b].localVariables)} :
                b \in 1..Len(blocks)}

UsedIds == {i.resultId : i \in OwnedInstructions \cup mapped}

SetMax(S) == CHOOSE x \in S : \A y \in S : y <= x

\* The next id of a builder that hands out ids in increasing order.
FreshId == SetMax(UsedIds \cup {0}) + 1

\* Module::mapInstruction(instruction), called by the builder on a new
\* instruction i.
MapInstructionCall(i) ==
    /\ idToInstruction' = MapInstruction(idToInstruction, i)
    /\ mapped' = mapped \cup {i}
    /\ last' = Call("mapInstruction", <<>>, i, <<>>)
    /\ UNCHANGED <<functions, blocks, ctor>>
    /\ InstUnchanged

\* Function::Function(id, resultType, functionType, firstParamId, parent).
\* The lookup of functionType dereferences the slot it reads, so the call is
\* made only when that slot exists and is not null.
NewFunction(id, resultType, functionType, firstParamId) ==
    LET fi == FunctionInstruction(id, resultType, functionType)
        idx1 == MapInstruction(idToInstruction, fi)
    IN  /\ InIndex(idx1, functionType)
        /\ GetInstruction(idx1, functionType) # NoInst
        /\ LET typeInst == GetInstruction(idx1, functionType)
               params == FunctionParameters(typeInst, firstParamId)
           IN  /\ idToInstruction' = MapAll(idx1, params)
               /\ mapped' = mapped \cup {fi} \cup {params[k] : k \in 1..Len(params)}
               /\ functions' = Append(functions,
                                      [functionInstruction |-> fi,
                                       parameterInstructions |-> params,
                                       blocks |-> <<>>])
        /\ last' = Call("Function", <<id, resultType, functionType, firstParamId>>,
                        NoInst, functions)
        /\ UNCHANGED <<blocks, ctor>>
        /\ InstUnchanged

\* Block::Block(id, parent)
NewBlock(id, f) ==
    LET label == NewInstruction(id, NoType, OpLabel)
    IN  /\ blocks' = Append(blocks, NewBlockRecord(label, f))
        /\ ctor' = Append(ctor, label)
        /\ last' = Call("Block", <<Len(blocks) + 1, id, f>>, NoInst, <<>>)
        /\ UNCHANGED <<idToInstruction, functions, mapped>>
        /\ InstUnchanged

\* Function::addBlock(block), for a block constructed with this parent and
\* not yet in its list.
AddBlock(f, b) ==
    /\ blocks[b].parent = f
    /\ \A k \in 1..Len(functions[f].blocks) : functions[f].blocks[k] # b
    /\ functions' = [functions EXCEPT ![f].blocks = Append(@, b)]
    /\ last' = Call("addBlock", <<b, f>>, NoInst, <<>>)
    /\ UNCHANGED <<idToInstruction, blocks, ctor, mapped>>
    /\ InstUnchanged

\* Block::addInstruction(inst)
AddInstruction(b, i) ==
    /\ Len(blocks[b].instructions) < MaxBlockLen
    /\ blocks' = [blocks EXCEPT ![b].instructions = Append(@, i)]
    /\ IF i.resultId # 0
       THEN /\ idToInstruction' = MapInstruction(idToInstruction, i)
            /\ mapped' = mapped \cup {i}
       ELSE UNCHANGED <<idToInstruction, mapped>>
    /\ last' = Call("addInstruction", <<b>>, i, blocks[b].instructions)
    /\ UNCHANGED <<functions, ctor>>
    /\ InstUnchanged

\* Block::addInstructionAtFront(inst); its three asserts are the guard.
AddInstructionAtFront(b, i) ==
    /\ Len(blocks[b].instructions) <= MaxBlockLen
    /\ blocks[b].instructions # <<>>
    /\ blocks[b].instructions[1].opCode = OpLabel
    /\ i.opCode # OpLabel
    /\ blocks' = [blocks EXCEPT ![b].instructions = InsertAt(@, 1, i)]
    /\ IF i.resultId # 0
       THEN /\ idToInstruction' = MapInstruction(idToInstruction, i)
            /\ mapped' = mapped \cup {i}
       ELSE UNCHANGED <<idToInstruction, mapped>>
    /\ last' = Call("addInstructionAtFront", <<b>>, i, blocks[b].instructions)
    /\ UNCHANGED <<functions, ctor>>
    /\ InstUnchanged

\* Block::insertInstructionBeforeTerminal(inst)
InsertInstructionBeforeTerminal(b, i) ==
    /\ Len(blocks[b].instructions) <= MaxBlockLen
    /\ blocks' = [blocks EXCEPT ![b].instructions = InsertedBeforeTerminal(@, i)]
    /\ last' = Call("insertInstructionBeforeTerminal", <<b>>, i,
                    blocks[b].instructions)
    /\ UNCHANGED <<idToInstruction, functions, ctor, mapped>>
    /\ InstUnchanged

\* Block::addLocalVariable(inst)
BlockAddLocalVariable(b, i) ==
    /\ Len(blocks[b].localVariables) < MaxLocals
    /\ blocks' = [blocks EXCEPT ![b].localVariables = Append(@, i)]
    /\ last' = Call("Block::addLocalVariable", <<b>>, i, blocks[b].localVariables)
    /\ UNCHANGED <<idToInstruction, functions, ctor, mapped>>
    /\ InstUnchanged

\* Function::addLocalVariable(inst); blocks[0] must exist.
FunctionAddLocalVariable(f, i) ==
    /\ functions[f].blocks # <<>>
    /\ LET b == functions[f].blocks[1]
       IN  /\ Len(blocks[b].localVariables) < MaxLocals
           /\ blocks' = [blocks EXCEPT ![b].localVariables = Append(@, i)]
           /\ last' = Call("Function::addLocalVariable", <<b, f>>, i,
                           blocks[b].localVariables)
    /\ idToInstruction' = MapInstruction(idToInstruction, i)
    /\ mapped' = mapped \cup {i}
    /\ UNCHANGED <<functions, ctor>>
    /\ InstUnchanged

\* Block::setUnreachable()
SetUnreachable(b) ==
    /\ ~blocks[b].unreachable
    /\ blocks' = [blocks EXCEPT ![b].unreachable = TRUE]
    /\ last' = Call("setUnreachable", <<b>>, NoInst, <<>>)
    /\ UNCHANGED <<idToInstruction, functions, ctor, mapped>>
    /\ InstUnchanged

\* Block::dump(out), out holding prefix when it is called.
DumpBlock(b, prefix) ==
    /\ out' = prefix \o BlockDump(blocks[b])
    /\ last' = Call("Block::dump", <<b>>, NoInst, prefix)
    /\ UNCHANGED <<inst, idToInstruction, functions, blocks, ctor, mapped>>

----------------------------------------------------------------------------
(* The index alone: instructions with distinct ids are registered. *)

IndexIds == {k \in 1..MaxId : k % 16 \in {0, 1, 2}}

InitModule ==
    /\ inst = NoInst
    /\ out = <<>>
    /\ last = Call("Module", <<>>, NoInst, <<>>)
    /\ EmptyModule

NextIndex ==
    \E id \in IndexIds \ UsedIds, t \in {NoType, 3} :
        /\ Cardinality(mapped) < MaxMapped
        /\ MapInstructionCall(NewInstruction(id, t, OpVariable))

SpecIndex == InitModule /\ [][NextIndex]_vars

----------------------------------------------------------------------------
(* Functions: a module in which one function type is registered. *)

TypeIds == {10, 11}

FunctionTypes ==
    {[NewInstruction(id, NoType, OpTypeFunction) EXCEPT !.operands = ops] :
        id \in {2, 20},
        ops \in {o \in SeqsUpTo(TypeIds, MaxParams + 1) : Len(o) >= 1}}

InitFunc ==
    /\ inst = NoInst
    /\ out = <<>>
    /\ functions = <<>>
    /\ blocks = <<>>
    /\ ctor = <<>>
    /\ \E ft \in FunctionTypes :
          /\ idToInstruction = MapInstruction(<<>>, ft)
          /\ mapped = {ft}
          /\ last = Call("mapInstruction", <<>>, ft, <<>>)

RegisteredFunctionTypes == {i \in mapped : i.opCode = OpTypeFunction}

NextFunc ==
    \E ft \in RegisteredFunctionTypes, id \in 1..MaxFuncId,
       firstParamId \in 1..MaxFuncId, rt \in TypeIds :
        /\ Len(functions) < MaxFunctions
        /\ id \notin UsedIds
        /\ \A p \in 0..(Len(ft.operands) - 2) :
              firstParamId + p \notin UsedIds \cup {id}
        /\ NewFunction(id, rt, ft.resultId, firstParamId)

SpecFunc == InitFunc /\ [][NextFunc]_vars

----------------------------------------------------------------------------
(* Blocks: a builder fills the blocks of a function. *)

VoidType == NewInstruction(1, NoType, OpTypeVoid)
VoidFunctionType ==
    [NewInstruction(2, NoType, OpTypeFunction) EXCEPT !.operands = <<1>>]

BodyOps ==
    {OpLoad, OpLoopMerge, OpSelectionMerge} \cup TerminatorOps

\* A new body instruction: OpLoad produces a result, the others do not.
BodyInstruction(op) ==
    IF op = OpLoad THEN NewInstruction(FreshId, 1, OpLoad)
    ELSE NewInstruction(NoResult, NoType, op)

LocalVariable == NewInstruction(FreshId, 1, OpVariable)

\* The module after the builder registered the void type and the type of
\* functions from nothing to void.
InitBlock ==
    /\ inst = NoInst
    /\ out = <<>>
    /\ idToInstruction = MapAll(<<>>, <<VoidType, VoidFunctionType>>)
    /\ mapped = {VoidType, VoidFunctionType}
    /\ functions = <<>>
    /\ blocks = <<>>
    /\ ctor = <<>>
    /\ last = Call("mapInstruction", <<>>, VoidFunctionType, <<>>)

\* The builder is the only writer and dump reads a finished graph: nothing is
\* changed once a dump has been made.  The model follows one function and
\* one block of it.
Building == last.op # "Block::dump"

FrontOps == {OpLoad}
InsertOps == {OpLoad}

NextBlock ==
    \/ Building /\ functions = <<>> /\ NewFunction(FreshId, 1, 2, 0)
    \/ \E f \in 1..Len(functions) : Building /\ blocks = <<>> /\ NewBlock(FreshId, f)
    \/ \E f \in 1..Len(functions), b \in 1..Len(blocks) : Building /\ AddBlock(f, b)
    \/ \E b \in 1..Len(blocks), op \in BodyOps :
          Building /\ AddInstruction(b, BodyInstruction(op))
    \/ \E b \in 1..Len(blocks), op \in FrontOps :
          Building /\ AddInstructionAtFront(b, BodyInstruction(op))
    \/ \E b \in 1..Len(blocks), op \in InsertOps :
          Building /\ InsertInstructionBeforeTerminal(b, BodyInstruction(op))
    \/ \E b \in 1..Len(blocks) : Building /\ BlockAddLocalVariable(b, LocalVariable)
    \/ \E f \in 1..Len(functions) :
          Building /\ FunctionAddLocalVariable(f, LocalVariable)
    \/ \E b \in 1..Len(blocks) : Building /\ SetUnreachable(b)
    \/ \E b \in 1..Len(blocks), prefix \in OutPrefixes : DumpBlock(b, prefix)

Spec == InitBlock /\ [][NextBlock]_vars

\* The instruction sequence of a block alone: the three insertions, on the
\* block of a function made from InitBlock.
NextInsert ==
    \/ functions = <<>> /\ NewFunction(FreshId, 1, 2, 0)
    \/ \E f \in 1..Len(functions) : blocks = <<>> /\ NewBlock(FreshId, f)
    \/ \E b \in 1..Len(blocks), op \in BodyOps : AddInstruction(b, BodyInstruction(op))
    \/ \E b \in 1..Len(blocks), op \in BodyOps :
          AddInstructionAtFront(b, BodyInstruction(op))
    \/ \E b \in 1..Len(blocks), op \in BodyOps :
          InsertInstructionBeforeTerminal(b, BodyInstruction(op))

SpecInsert == InitBlock /\ [][NextInsert]_vars

----------------------------------------------------------------------------
(* Properties of Instruction (checked under SpecInstr and SpecStr) *)

\* The words a dumped instruction must contribute, stated from the word
\* count rule: header, type id, result id, operands, string words.
ExpectedWordCount(i) ==
    1 + (IF i.typeId # 0 THEN 1 ELSE 0) + (IF i.resultId # 0 THEN 1 ELSE 0)
      + Len(i.operands) + (IF i.hasString THEN Len(i.string) ELSE 0)

Appended(prefix) == SubSeq(out, Len(prefix) + 1, Len(out))

\* C1: Instruction::dump appends exactly wordCount words, wordCount = 1 +
\* (type id present) + (result id present) + operands + string words; the
\* first appended word has wordCount in its upper 16 bits and the opcode in
\* its lower 16 bits, and is followed by the type id (if present), the result
\* id (if present), the operands in insertion order, then the string words.
C1_DumpLayout ==
    last.op = "Instruction::dump" =>
        LET w == Appended(last.pre)
            n == ExpectedWordCount(inst)
            t == IF inst.typeId # 0 THEN 1 ELSE 0
            r == IF inst.resultId # 0 THEN 1 ELSE 0
            k == Len(inst.operands)
        IN  /\ Len(out) = Len(last.pre) + n
            /\ SubSeq(out, 1, Len(last.pre)) = last.pre
            /\ w[1] \div 65536 = n
            /\ w[1] % 65536 = inst.opCode
            /\ inst.typeId # 0 => w[2] = inst.typeId
            /\ inst.resultId # 0 => w[2 + t] = inst.resultId
            /\ SubSeq(w, 2 + t + r, 1 + t + r + k) = inst.operands
            /\ SubSeq(w, 2 + t + r + k, n)
                 = (IF inst.hasString THEN inst.string ELSE <<>>)

\* An instruction with type id, result id, operands and a two-word string has
\* been dumped behind words already in out.
C1_Witness ==
    /\ last.op = "Instruction::dump"
    /\ last.pre # <<>>
    /\ inst.typeId # 0 /\ inst.resultId # 0
    /\ Len(inst.operands) = 2
    /\ inst.hasString /\ Len(inst.string) = 2
    /\ Len(out) = 8

TextAbcd == <<97, 98, 99, 100>>
TextAb == <<97, 98>>

\* C7: addStringOperand("abcd") stores exactly one word, the four packed
\* bytes, with no padding word; addStringOperand("ab") stores exactly one
\* word with bytes 'a','b',0,0.
C7_AbcdOneWord ==
    inst.hasString =>
        /\ inst.originalString = TextAbcd => inst.string = <<PackWord(TextAbcd)>>
        /\ inst.originalString = TextAb
             => inst.string = <<PackWord(<<97, 98, 0, 0>>)>>

\* C7 as amended: "abcd" stores two words, the four packed bytes and then an
\* all-zero word holding the terminating NUL; "ab" stores one word with bytes
\* 'a','b',0,0.
C7_AbcdTwoWords ==
    inst.hasString =>
        /\ inst.originalString = TextAbcd
             => inst.string = <<PackWord(TextAbcd), 0>>
        /\ inst.originalString = TextAb
             => inst.string = <<PackWord(<<97, 98, 0, 0>>)>>

C7_Witness ==
    /\ last.op = "addStringOperand"
    /\ inst.originalString = TextAbcd
    /\ Len(inst.string) = 2

StringBytes(words) == Concat([k \in 1..Len(words) |-> WordBytes(words[k])])

\* C8: read as bytes, 4 per word in source order, the stored string words
\* are the n text bytes in order, then at least one NUL, then only zero bytes
\* up to the end of the word that holds the NUL.
C8_NulTerminatedZeroPadded ==
    inst.hasString =>
        LET bytes == StringBytes(inst.string)
            n == Len(inst.originalString)
        IN  /\ Len(bytes) = 4 * Len(inst.string)
            /\ Len(bytes) > n
            /\ Len(bytes) <= n + 4
            /\ SubSeq(bytes, 1, n) = inst.originalString
            /\ \A k \in (n + 1)..Len(bytes) : bytes[k] = 0

\* A five-byte text has been encoded: one full word and a padded one.
C8_Witness ==
    /\ last.op = "addStringOperand"
    /\ Len(inst.originalString) = 5
    /\ Len(inst.string) = 2
    /\ \A k \in 1..5 : inst.originalString[k] # 0

----------------------------------------------------------------------------
(* Properties of Module and Function (checked under SpecIndex and SpecFunc) *)

\* C6: after every Module::mapInstruction call on instructions with pairwise
\* distinct result ids, getInstruction returns the instruction just
\* registered, every id registered earlier still resolves to its instruction,
\* and the index has more slots than the largest registered id.
C6_IndexKeepsMappings ==
    /\ last.op = "mapInstruction" => Resolves(last.inst)
    /\ \A i \in mapped : Resolves(i)
    /\ mapped # {}
         => Len(idToInstruction) > SetMax({i.resultId : i \in mapped})

\* Ids 1, 18 and 50 are registered, 50 last: the index grew for 18 or 50
\* after it held other mappings.
C6_Witness ==
    /\ last.op = "mapInstruction"
    /\ last.inst.resultId = 50
    /\ {i.resultId : i \in mapped} = {1, 18, 50}
    /\ Len(idToInstruction) = 66

\* C10: a Function constructed for a registered function type with N
\* parameter-type operands after the return type has exactly N parameter
\* instructions, the p-th with result id firstParamId + p and type id operand
\* p + 1 of the function type, each registered in the index; its defining
\* instruction is registered under the function's id and the function is
\* appended to the module's function list.
C10_FunctionParameters ==
    last.op = "Function" =>
        LET id == last.args[1]
            functionType == last.args[3]
            firstParamId == last.args[4]
            f == functions[Len(functions)]
            params == f.parameterInstructions
        IN  /\ Len(functions) = Len(last.pre) + 1
            /\ SubSeq(functions, 1, Len(last.pre)) = last.pre
            /\ FunctionGetId(f) = id
            /\ Resolves(f.functionInstruction)
            /\ \A ft \in mapped :
                  (ft.opCode = OpTypeFunction /\ ft.resultId = functionType) =>
                      /\ Len(params) = Len(ft.operands) - 1
                      /\ \A p \in 0..(Len(params) - 1) :
                            /\ params[p + 1].resultId = firstParamId + p
                            /\ params[p + 1].typeId = ft.operands[p + 2]
                            /\ Resolves(params[p + 1])

\* A function whose type is (10; 11, 10) has been constructed: two
\* parameters, of types 11 and 10.
C10_Witness ==
    /\ last.op = "Function"
    /\ LET f == functions[Len(functions)]
       IN  /\ Len(f.parameterInstructions) = 2
           /\ f.parameterInstructions[1].typeId = 11
           /\ f.parameterInstructions[2].typeId = 10
           /\ f.parameterInstructions[2].resultId
                = f.parameterInstructions[1].resultId + 1
           /\ f.functionInstruction.typeId = 10

----------------------------------------------------------------------------
(* Properties of Block (checked under Spec and SpecInsert) *)

MergeOps == {OpLoopMerge, OpSelectionMerge}

\* C2: every block's instruction sequence is non-empty, its element 0 is the
\* label instruction its constructor made, and getId returns the id the block
\* was constructed with.
C2_LabelStaysFirst ==
    \A b \in 1..Len(blocks) :
        /\ blocks[b].instructions # <<>>
        /\ blocks[b].instructions[1] = ctor[b]
        /\ BlockGetId(blocks[b]) = ctor[b].resultId

\* C3: once a block is terminated, every later step leaves the same
\* terminator last and the block terminated.
C3_TerminatorStaysLast ==
    [][\A b \in 1..Len(blocks) :
          IsTerminated(blocks[b]) =>
              /\ IsTerminated(blocks'[b])
              /\ Back(blocks'[b].instructions) = Back(blocks[b].instructions)]_vars

\* C3 as amended: once a block is terminated, every later step other than
\* addInstruction leaves the same terminator last and the block terminated
\* (addInstruction appends behind the terminator unconditionally).
C3_TerminatorStaysLastUnlessAdd ==
    [][last'.op # "addInstruction" =>
          \A b \in 1..Len(blocks) :
              IsTerminated(blocks[b]) =>
                  /\ IsTerminated(blocks'[b])
                  /\ Back(blocks'[b].instructions) = Back(blocks[b].instructions)]_vars

\* An instruction has been inserted at the front of a terminated block, and
\* one in front of the terminator of a terminated block.
C3_Witness ==
    /\ last.op \in {"addInstructionAtFront", "insertInstructionBeforeTerminal"}
    /\ Back(last.pre).opCode \in {OpKill, OpReturn}
    /\ Len(blocks[last.args[1]].instructions) = Len(last.pre) + 1
    /\ IsTerminated(blocks[last.args[1]])

\* post is pre with x inserted so that exactly k instructions of pre follow it
PlacedFromEnd(pre, post, x, k) ==
    LET n == Len(pre)
    IN  /\ Len(post) = n + 1
        /\ post[n + 1 - k] = x
        /\ SubSeq(post, 1, n - k) = SubSeq(pre, 1, n - k)
        /\ SubSeq(post, n + 2 - k, n + 1) = SubSeq(pre, n + 1 - k, n)

\* Where insertInstructionBeforeTerminal must put the instruction.
InsertPlacement(pre, post, x) ==
    LET n == Len(pre)
        op == Back(pre).opCode
        afterLoopMerge == n >= 2 /\ pre[n - 1].opCode = OpLoopMerge
    IN  /\ op \in TerminatorOps => Back(post) = Back(pre)
        /\ (op \in {OpBranchConditional, OpSwitch} \/ (op = OpBranch /\ afterLoopMerge))
             => PlacedFromEnd(pre, post, x, 2)
        /\ op \in {OpKill, OpReturn, OpReturnValue} => PlacedFromEnd(pre, post, x, 1)
        /\ op \notin TerminatorOps => PlacedFromEnd(pre, post, x, 0)

\* C4: insertInstructionBeforeTerminal leaves the terminator last, never
\* separates a loop-merge or selection-merge from the terminator that directly
\* follows it, and puts the instruction two from the end (branch after
\* loop-merge, conditional branch, switch), directly before kill and the
\* returns, or at the end of an unterminated block.
C4_NeverSplitsMerge ==
    last.op = "insertInstructionBeforeTerminal" =>
        LET pre == last.pre
            post == blocks[last.args[1]].instructions
            n == Len(pre)
        IN  /\ InsertPlacement(pre, post, last.inst)
            /\ (Back(pre).opCode \in TerminatorOps /\ n >= 2
                  /\ pre[n - 1].opCode \in MergeOps)
                 => post[n] = pre[n - 1]

\* C4 as amended: the merge stays directly before the terminator when the
\* terminator is a conditional branch or switch, or an unconditional branch
\* after a loop-merge; a selection-merge directly before an unconditional
\* branch, and any merge directly before kill or a return, is separated from
\* it, the instruction landing directly before the terminator.
C4_KeepsMergeBeforeItsBranch ==
    last.op = "insertInstructionBeforeTerminal" =>
        LET pre == last.pre
            post == blocks[last.args[1]].instructions
            n == Len(pre)
            op == Back(pre).opCode
        IN  /\ InsertPlacement(pre, post, last.inst)
            /\ (n >= 2 /\ pre[n - 1].opCode \in MergeOps
                  /\ (op \in {OpBranchConditional, OpSwitch}
                        \/ (op = OpBranch /\ pre[n - 1].opCode = OpLoopMerge)))
                 => post[n] = pre[n - 1]
            /\ (op \in {OpKill, OpReturn, OpReturnValue}
                  \/ (op = OpBranch /\ ~(n >= 2 /\ pre[n - 1].opCode = OpLoopMerge)))
                 => PlacedFromEnd(pre, post, last.inst, 1)

\* An instruction has been inserted into a block ending in loop-merge, branch.
C4_Witness ==
    /\ last.op = "insertInstructionBeforeTerminal"
    /\ Len(last.pre) = 3
    /\ last.pre[2].opCode = OpLoopMerge
    /\ last.pre[3].opCode = OpBranch
    /\ blocks[last.args[1]].instructions[2] = last.inst

\* C5: every instruction of the module with a non-zero result id (function
\* instructions, parameters, labels, body instructions, local variables) is
\* what getInstruction returns for its id, from the step that added it on.
C5_EveryResultIdResolves ==
    \A i \in OwnedInstructions : i.resultId # 0 => Resolves(i)

RECURSIVE Without(_, _)
Without(is, x) ==
    IF is = <<>> THEN <<>>
    ELSE IF Head(is) = x THEN Tail(is)
    ELSE <<Head(is)>> \o Without(Tail(is), x)

\* C9: Block::dump appends nothing exactly when the block is unreachable and
\* has at most 2 instructions; otherwise it appends the label, then the local
\* variables in the order added, then the other instructions of the main
\* sequence in order.
C9_BlockDumpLayout ==
    last.op = "Block::dump" =>
        LET b == blocks[last.args[1]]
            label == ctor[last.args[1]]
            w == Appended(last.pre)
            skip == b.unreachable /\ Len(b.instructions) <= 2
        IN  /\ SubSeq(out, 1, Len(last.pre)) = last.pre
            /\ (w = <<>>) <=> skip
            /\ ~skip => w = InstructionDump(label)
                             \o DumpAll(b.localVariables)
                             \o DumpAll(Without(b.instructions, label))

\* The same layout for the blocks whose label is still first.
BlockDumpLayoutWhenLabelFirst ==
    (last.op = "Block::dump" /\ blocks[last.args[1]].instructions[1] = ctor[last.args[1]])
        => C9_BlockDumpLayout

====
